---- MODULE Spec2Model ----
(***************************************************************************)
(* Model of src/structs/MusicQueue.ts: the playback session (MusicQueue),  *)
(* its serialized queue processor, the player and connection stateChange   *)
(* handlers and the reaction collector of the "now playing" message.       *)
(*                                                                         *)
(* Every await of the source is a suspension point: the handler up to the  *)
(* await is one action, its continuation is another.  The player and the   *)
(* voice connection are external objects; their transitions are inputs.   *)
(***************************************************************************)
EXTENDS Integers, Sequences, FiniteSets

\* ---------------------------------------------------------------- bounds
MaxTracks == 3      \* tracks ever enqueued in one behaviour
MaxBatch == 2       \* tracks passed to one enqueue call
MaxWaits == 2       \* backoff waits pending at the same time

\* ------------------------------------------------------ program constants
MaxRejoin == 5          \* rejoinAttempts < 5
BackoffUnit == 5        \* (rejoinAttempts + 1) * 5_000 ms, in seconds
VolumeStep == 10        \* volume - 10, volume + 10
VolumeMax == 100        \* Math.min(.., 100)
FallbackVolume == 100   \* config.DEFAULT_VOLUME || 100
TerminalCloseCode == 4014

Tracks == 1..MaxTracks
DefaultVolumes == {0, 5}    \* values of config.DEFAULT_VOLUME tried

VARIABLES
    songs,          \* this.songs: sequence of track ids
    nextId,         \* id the next enqueued Song object gets
    loop,           \* this.loop
    muted,          \* this.muted
    volume,         \* this.volume
    resource,       \* this.resource: 0 (undefined) or the track it was made from
    gain,           \* volume set on this.resource, in thousandths
    queueLock,      \* this.queueLock
    inflight,       \* processQueue invocations suspended at await makeResource
    playerState,    \* this.player.state.status
    halting,        \* player.stop() was called on a player that was not Idle
    windows,        \* tracks whose reaction collector is still collecting
    closed,         \* tracks with a "now playing" message whose collector has ended
    connState,      \* this.connection.state.status
    rejoinAttempts, \* this.connection.rejoinAttempts
    waits,          \* delays (s) of the pending backoff waits begun since the last Ready
    oldWaits,       \* delays (s) of the pending backoff waits begun before the last Ready
    readyLock,      \* this.readyLock
    readyWaits,     \* entersState(Ready, 20 s) calls that are pending
    base,           \* history: the queue when the current loop round began
    rot,            \* history: completions since base was taken
    starts1,        \* history: times playback of track 1 was started (max 2)
    ev              \* history: what the last step was and which calls it made

vars == <<songs, nextId, loop, muted, volume, resource, gain, queueLock, inflight,
          playerState, halting, windows, closed, connState, rejoinAttempts, waits, oldWaits,
          readyLock, readyWaits, base, rot, starts1, ev>>

queueVars == <<songs, nextId, loop, resource, queueLock, inflight, starts1>>
soundVars == <<muted, volume, gain>>
playerVars == <<playerState, halting>>
windowVars == <<windows, closed>>
connVars == <<connState, rejoinAttempts, waits, oldWaits, readyLock, readyWaits>>
loopHist == <<base, rot>>

\* ---------------------------------------------------------------- helpers
Min(a, b) == IF a < b THEN a ELSE b
Max(a, b) == IF a > b THEN a ELSE b

\* s with x added; s is kept in non-decreasing order (a bag of timers).
Insert(s, x) ==
    LET k == Cardinality({j \in 1..Len(s) : s[j] <= x})
    IN  [j \in 1..(Len(s) + 1) |-> IF j <= k THEN s[j] ELSE IF j = k + 1 THEN x ELSE s[j - 1]]

RECURSIVE InsertAll(_, _)
InsertAll(s, xs) == IF xs = <<>> THEN s ELSE InsertAll(Insert(s, Head(xs)), Tail(xs))

RemoveAt(s, i) == [j \in 1..(Len(s) - 1) |-> IF j < i THEN s[j] ELSE s[j + 1]]

\* The calls one step made; op names the handler that ran.
\* mk: makeResource calls, play: the track player.play got, stops: stop() calls,
\* pstop: player.stop() calls, rejoin/destroy: connection calls, delay: the wait
\* that ended, fresh: it began after the last Ready, at: rejoinAttempts (or the
\* track) the handler saw, auth: canModifyQueue, reason/code: the disconnect's,
\* g0: the gain before the step, win: the track of the message reacted to.
NoEv == [op |-> "init", mk |-> 0, play |-> 0, stops |-> 0, pstop |-> 0, rejoin |-> 0,
         destroy |-> 0, delay |-> 0, fresh |-> 0, at |-> 0, auth |-> 0,
         reason |-> "", code |-> 0, g0 |-> 0, win |-> 0]

\* setVolumeLogarithmic(v / 100) sets the resource's volume to (v/100)^1.660964;
\* the result in thousandths, for the volumes reachable in steps of 5.
\* (a last entry for 105: setVolumeLogarithmic takes values above 1).
LogGainTable == <<0, 7, 22, 43, 69, 100, 135, 175, 218, 265, 316, 370, 428, 489,
                  553, 620, 690, 763, 839, 918, 1000, 1084>>
LogGain(v) == LogGainTable[(v \div 5) + 1]

\* ------------------------------------------------------------ queue head
\* (Mutant: the head is dropped also when looping.)
AdvanceDropsAlways(s, l) == IF Len(s) > 0 THEN Tail(s) ELSE s

\* The player handlers' head step: rotate when looping, else drop the head.
Advance(s, l) ==
    IF l /\ Len(s) > 0 THEN Append(Tail(s), Head(s))
    ELSE IF Len(s) > 0 THEN Tail(s)
    ELSE s

\* (Mutant: processQueue is called only while tracks are left.)
NeedsProcessQueueOnly(s, res) == Len(s) > 0

\* The Idle handler's condition for calling processQueue.
NeedsProcess(s, res) == Len(s) > 0 \/ res # 0

\* ------------------------------------------------------- queue processor
\* (Mutant: the guard does not look at the player's status.)
BusyLockOnly(lock, p) == lock

\* (Mutant: the guard does not look at queueLock.)
BusyNoLock(lock, p) == p # "Idle"

\* processQueue's first guard.
Busy(lock, p) == lock \/ p # "Idle"

\* processQueue up to its await, run on queue s, loop flag l, player status p
\* and lock value lock: the session fields it leaves and the calls it made
\* (mk: the track whose makeResource it awaits, 0 when none).
ProcessQueue(s, l, p, lock) ==
    IF Busy(lock, p)
    THEN [songs |-> s, loop |-> l, lock |-> lock, mk |-> 0, stops |-> 0]
    ELSE IF Len(s) = 0
    THEN [songs |-> <<>>, loop |-> FALSE, lock |-> lock, mk |-> 0, stops |-> 1]
    ELSE [songs |-> s, loop |-> l, lock |-> TRUE, mk |-> Head(s), stops |-> 0]

\* The result of not calling processQueue at all.
NotCalled(s, l, lock) == [songs |-> s, loop |-> l, lock |-> lock, mk |-> 0, stops |-> 0]

Started(fl, r) == IF r.mk # 0 THEN Append(fl, r.mk) ELSE fl

Snap(s) == base' = s /\ rot' = 0

Init ==
    /\ songs = <<>>
    /\ nextId = 1
    /\ loop = FALSE
    /\ muted = FALSE
    /\ \E d \in DefaultVolumes : volume = (IF d = 0 THEN FallbackVolume ELSE d)
    /\ resource = 0
    /\ gain = 0
    /\ queueLock = FALSE
    /\ inflight = <<>>
    /\ playerState = "Idle"
    /\ halting = FALSE
    /\ windows = {}
    /\ closed = {}
    /\ connState = "Signalling"
    /\ rejoinAttempts = 0
    /\ waits = <<>>
    /\ oldWaits = <<>>
    /\ readyLock = FALSE
    /\ readyWaits = 0
    /\ base = <<>>
    /\ rot = 0
    /\ starts1 = 0
    /\ ev = NoEv

\* enqueue(...songs): append, then processQueue().
Enqueue(k) ==
    /\ nextId + k - 1 <= MaxTracks
    /\ LET new == [j \in 1..k |-> nextId + j - 1]
           r == ProcessQueue(songs \o new, loop, playerState, queueLock)
       IN  /\ songs' = r.songs
           /\ loop' = r.loop
           /\ queueLock' = r.lock
           /\ inflight' = Started(inflight, r)
           /\ Snap(r.songs)
           /\ ev' = [NoEv EXCEPT !.op = "enqueue", !.mk = IF r.mk # 0 THEN 1 ELSE 0,
                                 !.stops = r.stops]
    /\ nextId' = nextId + k
    /\ UNCHANGED <<resource, starts1, soundVars, playerVars, windowVars, connVars>>

\* stop(): loop off, queue cleared, player.stop().
Stop ==
    /\ loop' = FALSE
    /\ songs' = <<>>
    /\ halting' = (halting \/ playerState # "Idle")
    /\ UNCHANGED playerState

\* The external "stop" command runs stop() on the session.
UserStop ==
    /\ Stop
    /\ Snap(<<>>)
    /\ ev' = [NoEv EXCEPT !.op = "stop", !.stops = 1, !.pstop = 1]
    /\ UNCHANGED <<nextId, resource, queueLock, inflight, starts1, soundVars, windowVars,
                   connVars>>

\* (Mutant: the lock is released before the catch block's retry.)
RetryLockReleased(lock) == FALSE

\* The value of queueLock the catch block's processQueue() call sees: finally
\* has not run yet.
RetryLock(lock) == lock

\* (Mutant: the lock is released at the end of try, not in finally.)
LockAfterTryOnly(ok) == ~ok

\* queueLock when the invocation returns (finally), fulfilled or rejected.
LockAfter(ok) == FALSE

\* The continuation of processQueue after await next.makeResource(), for the
\* i-th suspended invocation; ok tells whether the promise was fulfilled.
MakeResourceDone(i, ok) ==
    /\ i \in 1..Len(inflight)
    /\ LET t == inflight[i]
           rest == RemoveAt(inflight, i)
           r == ProcessQueue(songs, loop, playerState, RetryLock(queueLock))
       IN  IF ok
           THEN /\ resource' = t
                /\ playerState' = "Buffering"
                /\ halting' = FALSE
                /\ gain' = LogGain(volume)
                /\ inflight' = rest
                /\ starts1' = IF t = 1 THEN Min(starts1 + 1, 2) ELSE starts1
                /\ ev' = [NoEv EXCEPT !.op = "mkOk", !.play = t]
                /\ UNCHANGED <<songs, loop, loopHist>>
           ELSE /\ songs' = r.songs
                /\ loop' = r.loop
                /\ inflight' = Started(rest, r)
                /\ IF r.stops > 0 THEN Snap(r.songs) ELSE UNCHANGED loopHist
                /\ ev' = [NoEv EXCEPT !.op = "mkFail", !.mk = IF r.mk # 0 THEN 1 ELSE 0,
                                      !.stops = r.stops, !.at = t]
                /\ UNCHANGED <<resource, playerState, halting, gain, starts1>>
    /\ queueLock' = LockAfter(ok)
    /\ UNCHANGED <<nextId, muted, volume, windowVars, connVars>>

\* Player stateChange Buffering -> Playing: sendPlayingMessage sends the message,
\* adds the reactions and creates the collector.  (When the send fails no
\* collector exists: the state WindowEnd leads to.)
PlayerPlaying ==
    /\ playerState = "Buffering"
    /\ playerState' = "Playing"
    /\ windows' = windows \cup {resource}
    /\ ev' = [NoEv EXCEPT !.op = "playing"]
    /\ UNCHANGED <<queueVars, soundVars, halting, closed, connVars, loopHist>>

\* Player stateChange from a non-Idle status to Idle (the track ended, was
\* skipped or the stopped player ran out).
PlayerIdle ==
    /\ playerState # "Idle"
    /\ playerState' = "Idle"
    /\ halting' = FALSE
    /\ LET s1 == Advance(songs, loop)
           r == IF NeedsProcess(s1, resource)
                THEN ProcessQueue(s1, loop, "Idle", queueLock)
                ELSE NotCalled(s1, loop, queueLock)
       IN  /\ songs' = r.songs
           /\ loop' = r.loop
           /\ queueLock' = r.lock
           /\ inflight' = Started(inflight, r)
           /\ IF loop /\ Len(songs) > 0
              THEN base' = base /\ rot' = (IF rot >= Len(base) THEN 1 ELSE rot + 1)
              ELSE Snap(r.songs)
           /\ ev' = [NoEv EXCEPT !.op = "idle", !.mk = IF r.mk # 0 THEN 1 ELSE 0,
                                 !.stops = r.stops]
    /\ UNCHANGED <<nextId, resource, starts1, soundVars, windowVars, connVars>>

\* Player "error" event: the error handler runs while the player still holds the
\* failed resource, then the player goes Idle and the stateChange handler runs.
PlayerError ==
    /\ playerState # "Idle"
    /\ playerState' = "Idle"
    /\ halting' = FALSE
    /\ LET s1 == Advance(songs, loop)
           r1 == ProcessQueue(s1, loop, playerState, queueLock)
           s2 == Advance(r1.songs, r1.loop)
           r2 == IF NeedsProcess(s2, resource)
                 THEN ProcessQueue(s2, r1.loop, "Idle", r1.lock)
                 ELSE NotCalled(s2, r1.loop, r1.lock)
       IN  /\ songs' = r2.songs
           /\ loop' = r2.loop
           /\ queueLock' = r2.lock
           /\ inflight' = Started(Started(inflight, r1), r2)
           /\ Snap(r2.songs)
           /\ ev' = [NoEv EXCEPT !.op = "error",
                                 !.mk = (IF r1.mk # 0 THEN 1 ELSE 0) + (IF r2.mk # 0 THEN 1 ELSE 0),
                                 !.stops = r1.stops + r2.stops]
    /\ UNCHANGED <<nextId, resource, starts1, soundVars, windowVars, connVars>>

\* Player stateChange Playing <-> Paused: neither branch of the handler runs.
TogglePause ==
    /\ playerState \in {"Playing", "Paused"}
    /\ playerState' = IF playerState = "Playing" THEN "Paused" ELSE "Playing"
    /\ ev' = [NoEv EXCEPT !.op = "pause"]
    /\ UNCHANGED <<queueVars, soundVars, halting, windowVars, connVars, loopHist>>

\* The external "loop" command flips the public loop field.
ToggleLoop ==
    /\ loop' = ~loop
    /\ Snap(songs)
    /\ ev' = [NoEv EXCEPT !.op = "loop"]
    /\ UNCHANGED <<songs, nextId, resource, queueLock, inflight, starts1, soundVars,
                   playerVars, windowVars, connVars>>

\* The external "shuffle" command permutes the queue behind its head.
Shuffle ==
    /\ Len(songs) >= 3
    /\ \E p \in [1..Len(songs) -> 1..Len(songs)] :
          /\ p[1] = 1
          /\ \A a, b \in 1..Len(songs) : a # b => p[a] # p[b]
          /\ \E a \in 1..Len(songs) : p[a] # a
          /\ songs' = [j \in 1..Len(songs) |-> songs[p[j]]]
    /\ Snap(songs')
    /\ ev' = [NoEv EXCEPT !.op = "shuffle"]
    /\ UNCHANGED <<nextId, loop, resource, queueLock, inflight, starts1, soundVars,
                   playerVars, windowVars, connVars>>

QueueNext ==
    \/ \E k \in 1..MaxBatch : Enqueue(k)
    \/ \E i \in 1..MaxTracks, ok \in BOOLEAN : MakeResourceDone(i, ok)
    \/ PlayerPlaying
    \/ PlayerIdle
    \/ PlayerError
    \/ TogglePause
    \/ UserStop
    \/ ToggleLoop
    \/ Shuffle

SpecQueue == Init /\ [][QueueNext]_vars

\* ------------------------------------------------------- control listener
\* The collect handler of the collector on track t's "now playing" message;
\* auth is canModifyQueue(member) for the user who reacted.

\* (Mutant: an ended collector still emits collect.)
DeliveredAfterEnd(t) == t \in windows \cup closed

\* A reaction on track t's message reaches the collect handler only while the
\* collector created for that message has not ended.
Delivered(t) == t \in windows

\* Mute reaction.
MuteInput(t, auth) ==
    /\ Delivered(t)
    /\ IF auth
       THEN /\ muted' = ~muted
            /\ gain' = IF ~muted THEN LogGain(0) ELSE LogGain(volume)
       ELSE UNCHANGED <<muted, gain>>
    /\ ev' = [NoEv EXCEPT !.op = "mute", !.auth = IF auth THEN 1 ELSE 0, !.g0 = gain,
                          !.win = t]
    /\ UNCHANGED <<volume, queueVars, playerVars, windowVars, connVars, loopHist>>

\* (Mutant: volume-up without the ceiling.)
RaiseVolumeNoCeiling(v) == v + VolumeStep

\* The volume the volume-down and the volume-up reaction store.
LowerVolume(v) == Max(v - VolumeStep, 0)
RaiseVolume(v) == Min(v + VolumeStep, VolumeMax)

\* Volume-down reaction.
VolumeDownInput(t, auth) ==
    /\ Delivered(t)
    /\ IF volume # 0 /\ auth
       THEN /\ volume' = LowerVolume(volume)
            /\ gain' = LogGain(volume')
       ELSE UNCHANGED <<volume, gain>>
    /\ ev' = [NoEv EXCEPT !.op = "voldown", !.auth = IF auth THEN 1 ELSE 0,
                          !.at = volume, !.win = t]
    /\ UNCHANGED <<muted, queueVars, playerVars, windowVars, connVars, loopHist>>

\* Volume-up reaction.
VolumeUpInput(t, auth) ==
    /\ Delivered(t)
    /\ IF volume # VolumeMax /\ auth
       THEN /\ volume' = RaiseVolume(volume)
            /\ gain' = LogGain(volume')
       ELSE UNCHANGED <<volume, gain>>
    /\ ev' = [NoEv EXCEPT !.op = "volup", !.auth = IF auth THEN 1 ELSE 0,
                          !.at = volume, !.win = t]
    /\ UNCHANGED <<muted, queueVars, playerVars, windowVars, connVars, loopHist>>

\* Stop reaction: the "stop" command, then collector.stop().
StopInput(t) ==
    /\ Delivered(t)
    /\ Stop
    /\ Snap(<<>>)
    /\ windows' = windows \ {t}
    /\ closed' = closed \cup {t}
    /\ ev' = [NoEv EXCEPT !.op = "stopInput", !.stops = 1, !.pstop = 1, !.win = t]
    /\ UNCHANGED <<nextId, resource, queueLock, inflight, starts1, soundVars, connVars>>

\* The collector's time (the track's duration, or 600 s) runs out: it ends and
\* collects nothing more.
WindowEnd(t) ==
    /\ t \in windows
    /\ windows' = windows \ {t}
    /\ closed' = closed \cup {t}
    /\ ev' = [NoEv EXCEPT !.op = "windowEnd"]
    /\ UNCHANGED <<queueVars, soundVars, playerVars, connVars, loopHist>>

\* A user reacts on track t's message after its collector ended: no collect
\* event is emitted and no handler runs.
LateInput(t) ==
    /\ t \in closed \ windows
    /\ ~Delivered(t)
    /\ ev' = [NoEv EXCEPT !.op = "lateInput", !.win = t]
    /\ UNCHANGED <<queueVars, soundVars, playerVars, windowVars, connVars, loopHist>>

SoundNext ==
    \/ \E t \in Tracks, auth \in BOOLEAN : MuteInput(t, auth)
    \/ \E t \in Tracks, auth \in BOOLEAN : VolumeDownInput(t, auth)
    \/ \E t \in Tracks, auth \in BOOLEAN : VolumeUpInput(t, auth)

\* ------------------------------------------------- connection lifecycle
DisconnectInputs ==
    {<<"WebSocketClose", TerminalCloseCode>>, <<"WebSocketClose", 4015>>,
     <<"EndpointRemoved", 0>>}

\* (Mutant: no close is taken as terminal.)
IsTerminalNever(reason, code) == FALSE

\* The Disconnected branch's tests and the backoff it waits.
IsTerminal(reason, code) == reason = "WebSocketClose" /\ code = TerminalCloseCode
CanRejoin(a) == a < MaxRejoin
BackoffDelay(a) == (a + 1) * BackoffUnit

\* (Mutant: the branch does not look at readyLock.)
ReadyBranchNoLock(st) ==
    IF st \in {"Connecting", "Signalling"}
    THEN readyLock' = TRUE /\ readyWaits' = readyWaits + 1
    ELSE UNCHANGED <<readyLock, readyWaits>>

\* The second branch of the handler: a wait for Ready starts unless one is
\* in flight.  Run on the status st the connection changed to.
ReadyBranch(st) ==
    IF ~readyLock /\ st \in {"Connecting", "Signalling"}
    THEN readyLock' = TRUE /\ readyWaits' = readyWaits + 1
    ELSE UNCHANGED <<readyLock, readyWaits>>

\* Connection stateChange into Disconnected with the given reason and close code.
ConnDisconnect(reason, code) ==
    /\ connState # "Destroyed"
    /\ connState' = IF ~IsTerminal(reason, code) /\ ~CanRejoin(rejoinAttempts)
                    THEN "Destroyed" ELSE "Disconnected"
    /\ IF IsTerminal(reason, code)
       THEN /\ Stop
            /\ Snap(<<>>)
            /\ ev' = [NoEv EXCEPT !.op = "disconnect", !.reason = reason, !.code = code,
                                  !.at = rejoinAttempts, !.stops = 1, !.pstop = 1]
            /\ UNCHANGED waits
       ELSE IF CanRejoin(rejoinAttempts)
       THEN /\ Len(waits) + Len(oldWaits) < MaxWaits
            /\ waits' = Insert(waits, BackoffDelay(rejoinAttempts))
            /\ ev' = [NoEv EXCEPT !.op = "disconnect", !.reason = reason, !.code = code,
                                  !.at = rejoinAttempts]
            /\ UNCHANGED <<songs, loop, halting, playerState, loopHist>>
       ELSE /\ ev' = [NoEv EXCEPT !.op = "disconnect", !.reason = reason, !.code = code,
                                  !.at = rejoinAttempts, !.destroy = 1]
            /\ UNCHANGED <<waits, songs, loop, halting, playerState, loopHist>>
    /\ UNCHANGED <<nextId, resource, queueLock, inflight, starts1, soundVars, windowVars,
                   rejoinAttempts, oldWaits, readyLock, readyWaits>>

\* connection.rejoin(): nothing on a Destroyed connection; otherwise the attempt
\* is counted unless the connection is Ready, and a connection that is not Ready
\* goes Signalling, which the stateChange handler sees.
Rejoin ==
    IF connState \in {"Destroyed", "Ready"}
    THEN UNCHANGED <<connState, rejoinAttempts, readyLock, readyWaits>>
    ELSE /\ rejoinAttempts' = rejoinAttempts + 1
         /\ connState' = "Signalling"
         /\ ReadyBranch("Signalling")

\* The i-th backoff wait ends (old: one begun before the last Ready): rejoin().
BackoffElapsed(i, old) ==
    /\ i \in 1..Len(IF old THEN oldWaits ELSE waits)
    /\ IF old
       THEN oldWaits' = RemoveAt(oldWaits, i) /\ UNCHANGED waits
       ELSE waits' = RemoveAt(waits, i) /\ UNCHANGED oldWaits
    /\ ev' = [NoEv EXCEPT !.op = "rejoin", !.rejoin = 1, !.at = rejoinAttempts,
                          !.delay = IF old THEN oldWaits[i] ELSE waits[i],
                          !.fresh = IF old THEN 0 ELSE 1]
    /\ Rejoin
    /\ UNCHANGED <<queueVars, soundVars, playerVars, windowVars, loopHist>>

\* Connection stateChange into Connecting.
ConnConnecting ==
    /\ connState \in {"Signalling", "Disconnected"}
    /\ connState' = "Connecting"
    /\ ReadyBranch("Connecting")
    /\ ev' = [NoEv EXCEPT !.op = "connecting"]
    /\ UNCHANGED <<queueVars, soundVars, playerVars, windowVars, rejoinAttempts, waits,
                   oldWaits, loopHist>>

\* Connection stateChange into Ready: the connection resets rejoinAttempts and
\* every pending entersState(Ready) is fulfilled; finally clears readyLock.
ConnReady ==
    /\ connState = "Connecting"
    /\ connState' = "Ready"
    /\ rejoinAttempts' = 0
    /\ readyWaits' = 0
    /\ readyLock' = IF readyWaits > 0 THEN FALSE ELSE readyLock
    /\ waits' = <<>>
    /\ oldWaits' = InsertAll(oldWaits, waits)
    /\ ev' = [NoEv EXCEPT !.op = "ready"]
    /\ UNCHANGED <<queueVars, soundVars, playerVars, windowVars, loopHist>>

\* A pending entersState(Ready, 20 s) is rejected: destroy unless Destroyed.
ReadyTimeout ==
    /\ readyWaits > 0
    /\ connState # "Ready"
    /\ readyWaits' = readyWaits - 1
    /\ readyLock' = FALSE
    /\ IF connState # "Destroyed"
       THEN connState' = "Destroyed" /\ ev' = [NoEv EXCEPT !.op = "timeout", !.destroy = 1]
       ELSE connState' = connState /\ ev' = [NoEv EXCEPT !.op = "timeout"]
    /\ UNCHANGED <<queueVars, soundVars, playerVars, windowVars, rejoinAttempts, waits,
                   oldWaits, loopHist>>

ConnNext ==
    \/ \E d \in DisconnectInputs : ConnDisconnect(d[1], d[2])
    \/ \E i \in 1..MaxWaits, old \in BOOLEAN : BackoffElapsed(i, old)
    \/ ConnConnecting
    \/ ConnReady
    \/ ReadyTimeout

\* ------------------------------------------------------- specifications
\* The whole session.
Next ==
    \/ QueueNext \/ SoundNext \/ ConnNext
    \/ \E t \in Tracks : StopInput(t) \/ WindowEnd(t) \/ LateInput(t)

Spec == Init /\ [][Next]_vars

\* The control listener's sound actions over the playback that opens windows.
SpecSound ==
    Init /\ [][\/ SoundNext
               \/ \E k \in 1..MaxBatch : Enqueue(k)
               \/ \E i \in 1..MaxTracks, ok \in BOOLEAN : MakeResourceDone(i, ok)
               \/ PlayerPlaying
               \/ PlayerIdle
               \/ \E t \in Tracks : WindowEnd(t)]_vars

\* Playback with the reactions on its "now playing" messages, while their
\* collectors collect and after they ended.
SpecWindow ==
    Init /\ [][\/ SoundNext
               \/ \E k \in 1..MaxBatch : Enqueue(k)
               \/ \E i \in 1..MaxTracks, ok \in BOOLEAN : MakeResourceDone(i, ok)
               \/ PlayerPlaying
               \/ PlayerIdle
               \/ \E t \in Tracks : StopInput(t) \/ WindowEnd(t) \/ LateInput(t)]_vars

\* Enqueue calls and the playback they set off, with no other command.
SpecEnqueue ==
    Init /\ [][\/ \E k \in 1..MaxBatch : Enqueue(k)
               \/ \E i \in 1..MaxTracks, ok \in BOOLEAN : MakeResourceDone(i, ok)
               \/ PlayerPlaying
               \/ PlayerIdle]_vars

\* The connection lifecycle alone.
SpecConn == Init /\ [][ConnNext]_vars

\* The connection lifecycle where the 20 s timer of a pending
\* entersState(Ready) runs out unless the connection gets Ready first.
SpecConnFair == SpecConn /\ WF_vars(ReadyTimeout)

\* Disconnects, and the rejoins that raise rejoinAttempts, over a session that
\* has tracks queued, may loop and may be playing.
SpecTerminal ==
    Init /\ [][\/ \E d \in DisconnectInputs : ConnDisconnect(d[1], d[2])
               \/ \E i \in 1..MaxWaits, old \in BOOLEAN : BackoffElapsed(i, old)
               \/ \E k \in 1..MaxBatch : Enqueue(k)
               \/ \E i \in 1..MaxTracks, ok \in BOOLEAN : MakeResourceDone(i, ok)
               \/ ToggleLoop]_vars

\* ------------------------------------------------------------------ claims

\* C1: while a processQueue invocation is suspended at await makeResource, a
\* second invocation triggered by enqueue, a player Idle transition or a player
\* error calls neither makeResource nor play, so at most one invocation is ever
\* suspended and play is called once for both.
C1_SecondInvocationReturns ==
    /\ [](Len(inflight) <= 1)
    /\ [][(Len(inflight) > 0 /\ ev'.op \in {"enqueue", "idle", "error"})
            => (ev'.mk = 0 /\ ev'.play = 0 /\ inflight' = inflight
                /\ resource' = resource /\ playerState' = playerState)]_vars

\* An enqueue arrived while an invocation was suspended, and was refused.
C1_Witness ==
    ev.op = "enqueue" /\ ev.mk = 0 /\ Len(inflight) = 1 /\ Len(songs) >= 2
    /\ playerState = "Idle" /\ queueLock

\* C2: after one or more enqueue calls on an idle, empty session, and with no
\* trigger but those calls, playback of the first track enqueued is started
\* exactly once: once no resource creation is pending, track 1 was started once.
C2_FirstTrackStartedOnce ==
    (nextId > 1 /\ Len(inflight) = 0) => starts1 = 1

\* C3: with loop off a normal completion removes exactly the head, which does
\* not come back, and the completion that empties the queue calls stop().
C3_CompletionRemovesHead ==
    [][(ev'.op = "idle" /\ ~loop)
         => /\ songs' = (IF Len(songs) > 0 THEN Tail(songs) ELSE <<>>)
            /\ Len(songs) > 0 => \A j \in 1..Len(songs') : songs'[j] # Head(songs)
            /\ Len(songs') = 0 => (ev'.stops = 1 /\ ~loop')]_vars

\* The last of three tracks completed: the queue is empty and stop() ran.
C3_Witness ==
    ev.op = "idle" /\ ev.stops = 1 /\ Len(songs) = 0 /\ resource = MaxTracks
    /\ nextId = MaxTracks + 1 /\ ~loop

\* C4: with loop on a normal completion moves the head to the tail, and after
\* as many completions as the queue has tracks (two or more), with no enqueue,
\* shuffle, stop, loop command or player error between them, the queue is in
\* its original order.
C4_RoundRobin ==
    /\ [][(ev'.op = "idle" /\ loop /\ Len(songs) > 0)
            => (songs' = Append(Tail(songs), Head(songs)) /\ Len(songs') = Len(songs))]_vars
    /\ []((loop /\ Len(base) >= 2 /\ rot = Len(base)) => songs = base)

\* A looping queue of three tracks completed its third track in a row.
C4_Witness ==
    loop /\ Len(base) = 3 /\ rot = 3 /\ ev.op = "idle" /\ songs = base

\* C5: when makeResource fails for the head and a later track is queued, the
\* failed track is abandoned and processing goes on: the failing continuation
\* leaves another track at the head with its resource creation under way.
C5_FailedTrackAbandoned ==
    [][(ev'.op = "mkFail" /\ Len(songs) >= 2 /\ Head(songs) = ev'.at)
         => (Head(songs') # Head(songs) /\ ev'.mk = 1 /\ Len(inflight') = 1)]_vars

\* C6: in a run of non-terminal disconnects without a reset of rejoinAttempts,
\* rejoin() is called at most 5 times, the call made at rejoinAttempts = k ends
\* a wait of (k + 1) * 5 seconds, and after destroy() there is no rejoin().
C6_BoundedBackoff ==
    [][(ev'.rejoin = 1 /\ ev'.fresh = 1)
         => /\ rejoinAttempts < 5
            /\ ev'.delay = (rejoinAttempts + 1) * 5
            /\ connState # "Destroyed"]_vars

\* C7: a Disconnected transition with WebSocketClose and close code 4014 stops
\* the session (loop off, queue cleared, player.stop()) and its handling calls
\* neither rejoin() nor destroy() and starts no backoff wait, whatever
\* rejoinAttempts is.
C7_TerminalCloseStops ==
    [][(ev'.op = "disconnect" /\ ev'.reason = "WebSocketClose" /\ ev'.code = 4014)
         => /\ ~loop' /\ songs' = <<>>
            /\ ev'.stops >= 1 /\ ev'.pstop >= 1
            /\ (playerState # "Idle" => halting')
            /\ ev'.rejoin = 0 /\ ev'.destroy = 0
            /\ waits' = waits /\ oldWaits' = oldWaits
            /\ connState' = "Disconnected" /\ rejoinAttempts' = rejoinAttempts]_vars

\* A terminal close arrived with attempts exhausted and halted a playing player.
C7_Witness ==
    /\ ev.op = "disconnect" /\ ev.code = 4014 /\ ev.at >= 5
    /\ halting /\ playerState = "Buffering" /\ resource # 0 /\ nextId > 2
    /\ connState = "Disconnected"

\* C8: whenever muted is set and a resource is active, the gain on it is 0.
C8_MutedGainZero ==
    (muted /\ resource # 0 /\ playerState # "Idle") => gain = 0

\* C9: the stored volume stays in [0, 100]; an accepted volume-up stores
\* min(volume + 10, 100), an accepted volume-down max(volume - 10, 0), at 100 and
\* at 0 they change nothing, and a mute toggle never changes the stored volume.
C9_VolumeRange ==
    /\ [](volume \in 0..100)
    /\ [][/\ (ev'.op = "volup" /\ ev'.auth = 1)
              => volume' = (IF volume + 10 < 100 THEN volume + 10 ELSE 100)
          /\ (ev'.op = "voldown" /\ ev'.auth = 1)
              => volume' = (IF volume - 10 > 0 THEN volume - 10 ELSE 0)
          /\ (ev'.op = "volup" /\ volume = 100) => UNCHANGED <<volume, gain, muted>>
          /\ (ev'.op = "voldown" /\ volume = 0) => UNCHANGED <<volume, gain, muted>>
          /\ (ev'.op \in {"volup", "voldown"} /\ ev'.auth = 0) => UNCHANGED <<volume, gain, muted>>
          /\ ev'.op = "mute" => volume' = volume]_vars

\* A volume-up from 95 was clamped to 100.
C9_Witness ==
    ev.op = "volup" /\ ev.auth = 1 /\ ev.at = 95 /\ volume = 100 /\ gain = 1000

\* C10: two mute toggles in a row by an authorized user leave the gain of the
\* active resource as it was before the first, and muted and volume unchanged.
C10_DoubleMuteRestores ==
    [][(ev.op = "mute" /\ ev.auth = 1 /\ ev'.op = "mute" /\ ev'.auth = 1)
         => (gain' = ev.g0 /\ muted' = ~muted /\ volume' = volume)]_vars

C12_LockHeldOnlyInFlight ==
    /\ [](queueLock <=> Len(inflight) > 0)
    /\ [](playerState # "Idle" => ~queueLock)
    /\ [][ev'.op \in {"mkOk", "mkFail"} => (~queueLock' /\ inflight' = <<>>)]_vars

C12_Witness ==
    /\ ev.op = "mkFail"
    /\ ~queueLock
    /\ Len(inflight) = 0
    /\ Len(songs) >= 2
    /\ playerState = "Idle"

\* C13: at most one wait for Ready is in flight, and readyLock is set exactly
\* while it is: a change to Connecting or Signalling while readyLock is set
\* starts no second wait.  The wait ends when the connection gets Ready or the
\* 20 s run out, and readyLock is cleared then, so a set readyLock always leads
\* to a cleared one.  The timeout calls destroy() exactly when the connection
\* is not Destroyed already.
C13_SingleReadyWait ==
    /\ [](readyWaits <= 1)
    /\ [](readyLock <=> readyWaits > 0)
    /\ [][(readyLock /\ ev'.op \in {"connecting", "rejoin"})
            => readyWaits' = readyWaits]_vars
    /\ [][(readyLock /\ ev'.op \in {"ready", "timeout"}) => ~readyLock']_vars
    /\ [][ev'.op = "timeout" => (ev'.destroy = 1 <=> connState # "Destroyed")]_vars
    /\ (readyLock ~> ~readyLock)

C13_Witness ==
    /\ ev.op = "timeout"
    /\ ev.destroy = 0
    /\ connState = "Destroyed"
    /\ ~readyLock
    /\ readyWaits = 0

\* C14: an error reported by the player advances the queue by exactly one
\* entry, whatever the loop flag: the head is dropped, or rotated to the end
\* when loop is on, as one completion does, and the track started next is the
\* one that was second in the queue.
C14_ErrorAdvancesOnce ==
    [][ev'.op = "error"
         => /\ songs' = (IF Len(songs) = 0 THEN <<>>
                         ELSE IF loop THEN Append(Tail(songs), Head(songs))
                         ELSE Tail(songs))
            /\ Len(songs) >= 2
                 => (ev'.mk = 1 /\ Len(inflight') = 1 /\ Head(inflight') = songs[2])]_vars

\* C15: processQueue never preempts the playing track.  player.play() is called
\* only on an Idle player, whatever ran during the makeResource await, and
\* a processQueue() call made while the player is Buffering, Playing or Paused
\* (the one enqueue makes) starts nothing and changes nothing of the session:
\* the queue only gets the enqueued tracks appended.
C15_NoPreemption ==
    /\ [][ev'.play # 0 => playerState = "Idle"]_vars
    /\ [](Len(inflight) > 0 => playerState = "Idle")
    /\ [][(ev'.op = "enqueue" /\ playerState # "Idle")
            => /\ ev'.mk = 0 /\ ev'.play = 0 /\ ev'.stops = 0
               /\ UNCHANGED <<loop, resource, queueLock, inflight, playerState,
                              halting, muted, volume, gain>>
               /\ Len(songs') > Len(songs)
               /\ SubSeq(songs', 1, Len(songs)) = songs]_vars

C15_Witness ==
    /\ ev.op = "enqueue"
    /\ ev.mk = 0
    /\ playerState = "Playing"
    /\ resource = 1
    /\ songs = <<1, 2, 3>>
    /\ ~queueLock

\* C16: player.play() is never called while the queue is empty: after stop()
\* has cleared the queue no track starts until tracks are enqueued again, also
\* when stop() ran while a processQueue invocation was awaiting makeResource.
C16_NoPlayOnEmptyQueue ==
    [][ev'.play # 0 => (Len(songs) > 0 /\ Head(songs) = ev'.play)]_vars

\* C17: rejoin() is never called on a Destroyed connection, and the step after
\* a terminal disconnect (WebSocketClose, 4014) stopped the session is never
\* a rejoin() of a backoff wait that was pending.
C17_NoRejoinAfterEnd ==
    /\ [][ev'.rejoin = 1 => connState # "Destroyed"]_vars
    /\ [][(ev.op = "disconnect" /\ ev.reason = "WebSocketClose"
             /\ ev.code = TerminalCloseCode) => ev'.rejoin = 0]_vars

\* C18: at most one collector collects at any time, and once the current
\* track's message has its collector, a reaction on the message of an earlier
\* track changes none of volume, muted and gain.
C18_SingleWindow ==
    /\ [](Cardinality(windows) <= 1)
    /\ [][(ev'.win # 0 /\ ev'.win # resource /\ resource \in windows)
            => UNCHANGED <<volume, muted, gain>>]_vars

\* C19: a trigger of processQueue (an enqueue, an Idle transition, a player
\* error) starts at most one makeResource call, and when that call is rejected
\* the invocation returns without starting another: the retry of the catch
\* block makes no makeResource call, so no chain of retries exists.
C19_OneAttemptPerTrigger ==
    /\ [][ev'.op \in {"enqueue", "idle", "error"}
            => (ev'.mk <= 1 /\ Len(inflight') <= 1)]_vars
    /\ [][ev'.op = "mkFail"
            => (ev'.mk = 0 /\ inflight' = <<>> /\ ~queueLock' /\ songs' = songs)]_vars

C19_Witness ==
    /\ ev.op = "mkFail"
    /\ ev.mk = 0
    /\ inflight = <<>>
    /\ Len(songs) = MaxTracks
    /\ Head(songs) = ev.at
    /\ playerState = "Idle"
    /\ resource = 0

\* C20: with pruning off the end of a session sends the "queue ended" message
\* once.  The Idle transition after the last track sends it; the Idle
\* transition of a player halted by a stop() that already sent it on the
\* emptied queue does not send it again.
C20_OneEndMessage ==
    /\ [][(ev'.op = "idle" /\ ~halting /\ ~loop /\ Len(songs) = 1) => ev'.stops = 1]_vars
    /\ [][(ev'.op = "idle" /\ halting /\ Len(songs) = 0) => ev'.stops = 0]_vars

====
